---- MODULE Spec2Model ----
(***************************************************************************)
(* KrishiRakshak firmware: the duty-cycle loop of main.c, the classifier   *)
(* adapter of ml_inference.c and the rate-limited alert dispatcher of      *)
(* wireless_comms.c.                                                       *)
(*                                                                         *)
(* system_tick is a uint32_t of milliseconds advanced by 30000 per cycle.   *)
(* Every value it or last_alert_time can hold is a multiple of             *)
(* gcd(30000, 2^32) = 16, so both are held here in units of TickUnit = 16  *)
(* ms and uint32_t arithmetic is arithmetic modulo 2^32 / 16 = 2^28; the   *)
(* comparisons against 300000 and 3600000 (both multiples of 16) are       *)
(* unchanged by the division.  Floats are modelled as exact rationals: a   *)
(* score is an integer numerator over ScoreDen, a battery voltage is an    *)
(* integer number of millivolts.                                           *)
(***************************************************************************)
EXTENDS Integers, Sequences, FiniteSets, TLC

\* ---------------------------------------------------------------- constants

SENSOR_READ_INTERVAL_MS == 30000
ML_CONFIDENCE_THRESHOLD == 70
BATTERY_CHECK_INTERVAL == 3600000
MIN_ALERT_INTERVAL_MS == 300000
\* BATTERY_LOW_THRESHOLD 3.3f, in millivolts
BATTERY_LOW_THRESHOLD == 3300
\* for (int retry = 0; retry < 10; retry++)
CONNECT_RETRIES == 10
HTTP_OK == 200

CLASS_NORMAL == 0
CLASS_WATER_STRESS == 1
CLASS_PEST_RISK == 2

ALERT_WATER_STRESS == "water_stress"
ALERT_PEST_RISK == "pest_risk"
ALERT_LOW_BATTERY == "low_battery"

\* uint32_t arithmetic on millisecond values held in units of 16 ms
TickUnit == 2 ^ 4
TickModulus == 2 ^ (32 - 4)
Ms(x) == x \div TickUnit
U32(x) == x % TickModulus

\* ------------------------------------------------------------------- bounds

\* passes modelled: cycles executed step by step plus runs of uneventful cycles
MaxPasses == 4
\* how many cycles before the 32-bit wrap a long uneventful run ends; with 5 a
\* run from boot ends at the last multiple of CyclesPerBatteryCheck before it
NearWrap == 5

\* lengths of the uneventful runs: one cycle short of the alert window, one
\* battery-check period, and up to shortly before system_tick wraps
CyclesPerAlertWindow == MIN_ALERT_INTERVAL_MS \div SENSOR_READ_INTERVAL_MS
CyclesPerBatteryCheck == BATTERY_CHECK_INTERVAL \div SENSOR_READ_INTERVAL_MS
CyclesToWrap == TickModulus \div Ms(SENSOR_READ_INTERVAL_MS)
QuietRuns == {CyclesPerAlertWindow - 1, CyclesPerBatteryCheck, CyclesToWrap - NearWrap}

\* ------------------------------------------------------------ input domains

\* sensor readings (values x1): -1 / -100 are the drivers' error results
GoodReading == [soil_moisture |-> 20, temperature |-> 35, humidity |-> 80, audio_energy |-> 90]
SensorReadings ==
  { GoodReading,
    [GoodReading EXCEPT !.soil_moisture = -1],
    [GoodReading EXCEPT !.temperature = -100, !.humidity = -1],
    [GoodReading EXCEPT !.audio_energy = -1] }

\* a score is numerator / ScoreDen: a scale of 65 stands for 1/256, 64 for 1/260.
\* With output scale 1/260 and zero point -128 the level 54 dequantizes to
\* exactly 0.70 and 55 to just above it
ScoreDen == 256 * 65
QuantParams == { [scale |-> 64, zero_point |-> -128] }

\* int8 values the engine leaves in the output tensor
OutputLevels == {-128, 54, 55}
OutputTensors == [0..2 -> OutputLevels]
QuietOutput == [i \in 0..2 |-> IF i = 0 THEN 55 ELSE -128]
\* what interpreter->Invoke() does: its status and the output tensor it leaves
InvokeOutcomes ==
  {[ok |-> FALSE, output_data |-> QuietOutput]}
    \cup {[ok |-> TRUE, output_data |-> t] : t \in OutputTensors}

\* battery voltages in millivolts; -1000 is read_battery_voltage's error result
BatteryVoltages == {-1000, 3200, 3300, 3400}

\* what the transport does during one send_wireless_alert call: whether the
\* Wi-Fi profile is accepted, the poll at which it first reports CONNECTED,
\* snprintf's result, and the HTTP client's init, POST status and status code
GoodTransport ==
  [ profile_ok |-> TRUE, connected_at |-> 0, json_length |-> 200,
    http_init_ok |-> TRUE, post_ok |-> TRUE, status_code |-> HTTP_OK ]
TransportEnvs ==
  { GoodTransport,
    [GoodTransport EXCEPT !.connected_at = CONNECT_RETRIES - 1],
    [GoodTransport EXCEPT !.connected_at = CONNECT_RETRIES],
    [GoodTransport EXCEPT !.profile_ok = FALSE],
    [GoodTransport EXCEPT !.json_length = -1],
    [GoodTransport EXCEPT !.http_init_ok = FALSE],
    [GoodTransport EXCEPT !.post_ok = FALSE],
    [GoodTransport EXCEPT !.status_code = 500] }

\* what the stack slot of send_wireless_alert's local alert.sensor_data can hold
\* when the function does not assign it: zeroes, or what an earlier frame left
StackResidue ==
  { [soil_moisture |-> 0, temperature |-> 0, humidity |-> 0, audio_energy |-> 0, timestamp |-> 0],
    [soil_moisture |-> 77, temperature |-> 12, humidity |-> 5, audio_energy |-> 3, timestamp |-> 1] }

NoSample == [soil_moisture |-> 0, temperature |-> 0, humidity |-> 0, audio_energy |-> 0, timestamp |-> 0]
\* nothing done by run_ml_inference: no return of true, input tensor and
\* *result not written, Invoke() not called
NoResult ==
  [ valid |-> FALSE, input_written |-> FALSE, invoked |-> FALSE, invoke_failed |-> FALSE,
    result_written |-> FALSE ]

\* -------------------------------------------------------------------- state

VARIABLES
  pc,                   \* position in main(): init, read, process, battery, sleep, tick
  system_tick,          \* main.c
  current_sensor_data,  \* main.c
  alert_pending,        \* main.c
  wireless_connected,   \* wireless_comms.c
  last_alert_time,      \* wireless_comms.c
  ml,                   \* ml_inference.c statics: interpreter, tensors, quantization
  cb,                   \* utils.h: a circular_buffer_t
  ml_result,            \* process_sensor_data's local, as it stands when the function returns
  battery_voltage,      \* check_battery_level's local, when the check ran in this cycle
  cycle,                \* index of the current cycle since boot (not wrapped)
  phaseLog,             \* the steps of main()'s loop body taken in this cycle
  callLog,              \* the send_wireless_alert calls of this cycle's active phase
  sentLog,              \* every alert delivered so far
  ncyc,                 \* cycles executed step by step
  njump                 \* uneventful runs taken

vars == << pc, system_tick, current_sensor_data, alert_pending, wireless_connected,
           last_alert_time, ml, ml_result, battery_voltage, cycle, phaseLog, callLog,
           sentLog, ncyc, njump, cb >>

\* no circular_buffer_t has been initialised
NoBuffer == [ size |-> 0, head |-> 0, tail |-> 0, count |-> 0, buffer |-> << >> ]

\* ------------------------------------------------------------ ml_inference.c

MlUninitialised ==
  [ interpreter |-> FALSE, input_tensor |-> FALSE, output_tensor |-> FALSE,
    output_scale |-> 0, output_zero_point |-> 0 ]

\* ml_model_init: the outcome is the model file's and the arena's
MlModelInit(outcome, q) ==
  IF outcome = "schema_mismatch" THEN MlUninitialised
  ELSE IF outcome = "alloc_failed" THEN [MlUninitialised EXCEPT !.interpreter = TRUE]
  ELSE [ interpreter |-> TRUE, input_tensor |-> TRUE, output_tensor |-> TRUE,
         output_scale |-> q.scale, output_zero_point |-> q.zero_point ]

\* variant: the scan replaces the maximum on >= instead of >
RECURSIVE ArgmaxLoop_LastWins(_, _, _)
ArgmaxLoop_LastWins(output_data, i, best) ==
  IF i >= 3 THEN best
  ELSE IF output_data[i] >= output_data[best]
       THEN ArgmaxLoop_LastWins(output_data, i + 1, i)
       ELSE ArgmaxLoop_LastWins(output_data, i + 1, best)

\* for (i = 1; i < 3; i++) if (output_data[i] > max_score) {...}
RECURSIVE ArgmaxLoop(_, _, _)
ArgmaxLoop(output_data, i, best) ==
  IF i >= 3 THEN best
  ELSE IF output_data[i] > output_data[best]
       THEN ArgmaxLoop(output_data, i + 1, i)
       ELSE ArgmaxLoop(output_data, i + 1, best)

Argmax(output_data) == ArgmaxLoop(output_data, 1, 0)

\* variant: the zero point is not subtracted
Dequantize_NoZeroPoint(q, m) == q * m.output_scale

\* (q - output_zero_point) * output_scale
Dequantize(q, m) == (q - m.output_zero_point) * m.output_scale

\* get_current_time_us: system_tick * 1000 as a uint32_t, held in units of
\* TickUnit microseconds (the product is taken in two halves to stay in range)
GetCurrentTimeUs(tick) ==
  ((((tick \div 2^14) * 1000) % 2^14) * 2^14 + (tick % 2^14) * 1000) % TickModulus

\* inference_time = get_current_time_us() - start_time: the clock is read
\* before and after Invoke(), at the values system_tick has at the two reads
InferenceTime(tick_start, tick_end) ==
  U32(GetCurrentTimeUs(tick_end) - GetCurrentTimeUs(tick_start) + TickModulus)

\* variant: the guard tests the interpreter only, not the two tensors
RunMlInference_InterpreterOnly(m, invoke_ok, output_data, tick) ==
  IF ~m.interpreter THEN NoResult
  ELSE IF ~invoke_ok
  THEN [NoResult EXCEPT !.input_written = TRUE, !.invoked = TRUE, !.invoke_failed = TRUE]
  ELSE LET max_index == Argmax(output_data) IN
       [ valid |-> TRUE, input_written |-> TRUE, invoked |-> TRUE, invoke_failed |-> FALSE,
         result_written |-> TRUE,
         output_data |-> output_data,
         predicted_class |-> max_index,
         confidence |-> Dequantize(output_data[max_index], m),
         inference_time_us |-> InferenceTime(tick, tick),
         raw_scores |-> [i \in 0..2 |-> Dequantize(output_data[i], m)] ]

\* variant: the status Invoke() returns is not looked at
RunMlInference_InvokeUnchecked(m, invoke_ok, output_data, tick) ==
  IF ~m.interpreter \/ ~m.input_tensor \/ ~m.output_tensor THEN NoResult
  ELSE LET max_index == Argmax(output_data) IN
       [ valid |-> TRUE, input_written |-> TRUE, invoked |-> TRUE, invoke_failed |-> ~invoke_ok,
         result_written |-> TRUE,
         output_data |-> output_data,
         predicted_class |-> max_index,
         confidence |-> Dequantize(output_data[max_index], m),
         inference_time_us |-> InferenceTime(tick, tick),
         raw_scores |-> [i \in 0..2 |-> Dequantize(output_data[i], m)] ]

\* run_ml_inference: returns false at the guard when not initialised, and after
\* the input tensor was written when Invoke() fails; *result is written only on
\* the way to return true
RunMlInference(m, invoke_ok, output_data, tick) ==
  IF ~m.interpreter \/ ~m.input_tensor \/ ~m.output_tensor THEN NoResult
  ELSE IF ~invoke_ok
  THEN [NoResult EXCEPT !.input_written = TRUE, !.invoked = TRUE, !.invoke_failed = TRUE]
  ELSE LET max_index == Argmax(output_data) IN
       [ valid |-> TRUE, input_written |-> TRUE, invoked |-> TRUE, invoke_failed |-> FALSE,
         result_written |-> TRUE,
         output_data |-> output_data,
         predicted_class |-> max_index,
         confidence |-> Dequantize(output_data[max_index], m),
         inference_time_us |-> InferenceTime(tick, tick),
         raw_scores |-> [i \in 0..2 |-> Dequantize(output_data[i], m)] ]

\* ---------------------------------------------------------- wireless_comms.c

\* the polling loop of wireless_connect
RECURSIVE ConnectLoop(_, _)
ConnectLoop(retry, env) ==
  IF retry < CONNECT_RETRIES
  THEN IF retry >= env.connected_at
       THEN [ok |-> TRUE, polls |-> retry + 1]
       ELSE ConnectLoop(retry + 1, env)
  ELSE [ok |-> FALSE, polls |-> retry]

WirelessConnect(env) ==
  IF ~env.profile_ok THEN [ok |-> FALSE, polls |-> 0]
  ELSE ConnectLoop(0, env)

\* variant: the HTTP status code of the response is not looked at
SendHttpAlert_AnyCode(env) ==
  IF ~env.http_init_ok THEN [posts |-> 0, post_ok |-> FALSE, status_code |-> 0, ok |-> FALSE]
  ELSE [ posts |-> 1, post_ok |-> env.post_ok, status_code |-> env.status_code,
         ok |-> env.post_ok ]

\* variant: a POST that fails is made a second time
SendHttpAlert_Retry(env) ==
  IF ~env.http_init_ok THEN [posts |-> 0, post_ok |-> FALSE, status_code |-> 0, ok |-> FALSE]
  ELSE [ posts |-> IF env.post_ok /\ env.status_code = HTTP_OK THEN 1 ELSE 2,
         post_ok |-> env.post_ok, status_code |-> env.status_code,
         ok |-> env.post_ok /\ env.status_code = HTTP_OK ]

\* send_http_alert: whether a POST was made, and what it reported
SendHttpAlert(env) ==
  IF ~env.http_init_ok THEN [posts |-> 0, post_ok |-> FALSE, status_code |-> 0, ok |-> FALSE]
  ELSE [ posts |-> 1, post_ok |-> env.post_ok, status_code |-> env.status_code,
         ok |-> env.post_ok /\ env.status_code = HTTP_OK ]

\* variant: the window is compared against the sensor read interval
RateLimited_WrongInterval(tick, last) == U32(tick - last) < Ms(SENSOR_READ_INTERVAL_MS)

\* variant: a last_alert_time of 0 is taken to mean that nothing was sent yet
RateLimited_ZeroExempt(tick, last) ==
  last # 0 /\ U32(tick - last) < Ms(MIN_ALERT_INTERVAL_MS)

\* variant: the window ends one read interval early
RateLimited_OneCycleShort(tick, last) ==
  U32(tick - last) + Ms(SENSOR_READ_INTERVAL_MS) < Ms(MIN_ALERT_INTERVAL_MS)

\* (system_tick - last_alert_time) < MIN_ALERT_INTERVAL_MS, in uint32_t
RateLimited(tick, last) == U32(tick - last) < Ms(MIN_ALERT_INTERVAL_MS)

\* the transport would connect, format and deliver if it were asked to
Cooperative(env) ==
  /\ env.profile_ok /\ env.connected_at < CONNECT_RETRIES
  /\ env.json_length > 0
  /\ env.http_init_ok /\ env.post_ok /\ env.status_code = HTTP_OK

\* get_alert_recommendation
AlertRecommendation(alert_type) ==
  CASE alert_type = ALERT_WATER_STRESS -> "Initiate irrigation in affected area"
    [] alert_type = ALERT_PEST_RISK -> "Inspect crops for pest activity and consider treatment"
    [] alert_type = ALERT_LOW_BATTERY -> "Check solar panel and charging system"
    [] OTHER -> "Monitor situation"

\* alert.confidence = (uint8_t)(confidence * 100)
ConfidencePercent(confidence) == ((confidence * 100) \div ScoreDen) % 256

\* format_alert_json: the fields of the JSON text. The sensor_data object is
\* always printed, from alert->sensor_data: moisture, temperature and humidity
\* with one decimal (held in tenths), audio with two (in hundredths); the
\* timestamp is in units of TickUnit
FormatAlertJson(alert) ==
  [ timestamp |-> alert.timestamp,
    alert_type |-> alert.alert_type,
    confidence |-> alert.confidence,
    sensor_data |-> << [ moisture |-> alert.sensor_data.soil_moisture * 10,
                         temperature |-> alert.sensor_data.temperature * 10,
                         humidity |-> alert.sensor_data.humidity * 10,
                         audio |-> alert.sensor_data.audio_energy * 100 ] >>,
    recommendation |-> AlertRecommendation(alert.alert_type) ]

\* variant: a failed wireless_connect still leaves wireless_connected set
SendWirelessAlert_ConnectedAnyway(caller, alert_type, has_data, data, confidence, tick, connected, last, env, stack) ==
  LET base == [ caller |-> caller, alert_type |-> alert_type, has_data |-> has_data,
                sensor_data |-> data, confidence |-> confidence, tick |-> tick,
                cooperative |-> Cooperative(env),
                connects |-> 0, polls |-> 0, posts |-> 0, post_ok |-> FALSE, status_code |-> 0,
                outcome |-> "rate_limited", ret |-> FALSE, payload |-> << >>,
                connected |-> connected, last |-> last ]
      conn == WirelessConnect(env)
      http == SendHttpAlert(env)
      \* alert_message_t alert: sensor_data is assigned only if (sensor_data)
      alert == [ timestamp |-> tick, alert_type |-> alert_type,
                 confidence |-> ConfidencePercent(confidence),
                 sensor_data |-> IF has_data THEN data ELSE stack ]
  IN
  IF RateLimited(tick, last) THEN base
  ELSE IF ~connected /\ ~conn.ok
  THEN [base EXCEPT !.connects = 1, !.polls = conn.polls, !.outcome = "connect_failed",
                    !.connected = TRUE]
  ELSE LET c == IF connected THEN base
                ELSE [base EXCEPT !.connects = 1, !.polls = conn.polls, !.connected = TRUE]
           d == [c EXCEPT !.posts = http.posts, !.post_ok = http.post_ok,
                          !.status_code = http.status_code,
                          !.payload = << FormatAlertJson(alert) >>]
       IN
       IF env.json_length <= 0 THEN [c EXCEPT !.outcome = "format_failed"]
       ELSE IF http.ok
       THEN [d EXCEPT !.outcome = "sent", !.ret = TRUE, !.last = tick]
       ELSE [d EXCEPT !.outcome = "post_failed"]

\* variant: a failed POST clears wireless_connected
SendWirelessAlert_ForgetOnPostFailure(caller, alert_type, has_data, data, confidence, tick, connected, last, env, stack) ==
  LET base == [ caller |-> caller, alert_type |-> alert_type, has_data |-> has_data,
                sensor_data |-> data, confidence |-> confidence, tick |-> tick,
                cooperative |-> Cooperative(env),
                connects |-> 0, polls |-> 0, posts |-> 0, post_ok |-> FALSE, status_code |-> 0,
                outcome |-> "rate_limited", ret |-> FALSE, payload |-> << >>,
                connected |-> connected, last |-> last ]
      conn == WirelessConnect(env)
      http == SendHttpAlert(env)
      \* alert_message_t alert: sensor_data is assigned only if (sensor_data)
      alert == [ timestamp |-> tick, alert_type |-> alert_type,
                 confidence |-> ConfidencePercent(confidence),
                 sensor_data |-> IF has_data THEN data ELSE stack ]
  IN
  IF RateLimited(tick, last) THEN base
  ELSE IF ~connected /\ ~conn.ok
  THEN [base EXCEPT !.connects = 1, !.polls = conn.polls, !.outcome = "connect_failed"]
  ELSE LET c == IF connected THEN base
                ELSE [base EXCEPT !.connects = 1, !.polls = conn.polls, !.connected = TRUE]
           d == [c EXCEPT !.posts = http.posts, !.post_ok = http.post_ok,
                          !.status_code = http.status_code,
                          !.payload = << FormatAlertJson(alert) >>]
       IN
       IF env.json_length <= 0 THEN [c EXCEPT !.outcome = "format_failed"]
       ELSE IF http.ok
       THEN [d EXCEPT !.outcome = "sent", !.ret = TRUE, !.last = tick]
       ELSE [d EXCEPT !.outcome = "post_failed", !.connected = FALSE]

\* send_wireless_alert: the call's record, with the statics as it leaves them
\* (connected, last)
SendWirelessAlert(caller, alert_type, has_data, data, confidence, tick, connected, last, env, stack) ==
  LET base == [ caller |-> caller, alert_type |-> alert_type, has_data |-> has_data,
                sensor_data |-> data, confidence |-> confidence, tick |-> tick,
                cooperative |-> Cooperative(env),
                connects |-> 0, polls |-> 0, posts |-> 0, post_ok |-> FALSE, status_code |-> 0,
                outcome |-> "rate_limited", ret |-> FALSE, payload |-> << >>,
                connected |-> connected, last |-> last ]
      conn == WirelessConnect(env)
      http == SendHttpAlert(env)
      \* alert_message_t alert: sensor_data is assigned only if (sensor_data)
      alert == [ timestamp |-> tick, alert_type |-> alert_type,
                 confidence |-> ConfidencePercent(confidence),
                 sensor_data |-> IF has_data THEN data ELSE stack ]
  IN
  IF RateLimited(tick, last) THEN base
  ELSE IF ~connected /\ ~conn.ok
  THEN [base EXCEPT !.connects = 1, !.polls = conn.polls, !.outcome = "connect_failed"]
  ELSE LET c == IF connected THEN base
                ELSE [base EXCEPT !.connects = 1, !.polls = conn.polls, !.connected = TRUE]
           d == [c EXCEPT !.posts = http.posts, !.post_ok = http.post_ok,
                          !.status_code = http.status_code,
                          !.payload = << FormatAlertJson(alert) >>]
       IN
       IF env.json_length <= 0 THEN [c EXCEPT !.outcome = "format_failed"]
       ELSE IF http.ok
       THEN [d EXCEPT !.outcome = "sent", !.ret = TRUE, !.last = tick]
       ELSE [d EXCEPT !.outcome = "post_failed"]

Delivered(r) == IF r.outcome = "sent"
                THEN << [alert_type |-> r.alert_type, tick |-> r.tick, cycle |-> cycle] >>
                ELSE << >>

\* ------------------------------------------------------------------- main.c

\* variant: the loop body goes from the battery check straight to the tick
StepAfter_NoSleep(p) ==
  CASE p = "init" -> "read"
    [] p = "read" -> "process"
    [] p = "process" -> "battery"
    [] p = "battery" -> "tick"
    [] p = "sleep" -> "tick"
    [] p = "tick" -> "read"

\* variant: the loop body runs once and main() returns
StepAfter_NoLoop(p) ==
  CASE p = "init" -> "read"
    [] p = "read" -> "process"
    [] p = "process" -> "battery"
    [] p = "battery" -> "sleep"
    [] p = "sleep" -> "tick"
    [] p = "tick" -> "done"

\* the body of while (1): read_all_sensors, process_sensor_data, the battery
\* check, enter_low_power_mode, system_tick += ..., and round again
StepAfter(p) ==
  CASE p = "init" -> "read"
    [] p = "read" -> "process"
    [] p = "process" -> "battery"
    [] p = "battery" -> "sleep"
    [] p = "sleep" -> "tick"
    [] p = "tick" -> "read"

Init ==
  /\ pc = "init"
  /\ system_tick = 0
  /\ current_sensor_data = NoSample
  /\ alert_pending = FALSE
  /\ wireless_connected = FALSE
  /\ last_alert_time = 0
  /\ ml = MlUninitialised
  /\ ml_result = NoResult
  /\ battery_voltage = << >>
  /\ cycle = 0
  /\ phaseLog = << >>
  /\ callLog = << >>
  /\ sentLog = << >>
  /\ ncyc = 0
  /\ njump = 0
  /\ cb = NoBuffer

\* system_init: the result of ml_model_init is not looked at
SystemInit ==
  /\ pc = "init"
  /\ \E outcome \in {"ok", "schema_mismatch", "alloc_failed"}, q \in QuantParams :
       ml' = MlModelInit(outcome, q)
  /\ pc' = StepAfter(pc)
  /\ UNCHANGED << system_tick, current_sensor_data, alert_pending, wireless_connected,
                  last_alert_time, ml_result, battery_voltage, cycle, phaseLog, callLog,
                  sentLog, ncyc, njump >>
  /\ UNCHANGED cb

\* read_all_sensors
ReadAllSensors ==
  /\ pc = "read"
  /\ ncyc + njump < MaxPasses
  /\ \E r \in SensorReadings :
       current_sensor_data' =
         [ soil_moisture |-> r.soil_moisture, temperature |-> r.temperature,
           humidity |-> r.humidity, audio_energy |-> r.audio_energy,
           timestamp |-> system_tick ]
  /\ pc' = StepAfter(pc)
  /\ phaseLog' = << "read" >>
  /\ callLog' = << >>
  /\ UNCHANGED << system_tick, alert_pending, wireless_connected, last_alert_time, ml,
                  ml_result, battery_voltage, cycle, sentLog, ncyc, njump >>
  /\ UNCHANGED cb

\* variant: the threshold test is >= instead of >
AboveThreshold_Inclusive(confidence) == confidence * 100 >= ML_CONFIDENCE_THRESHOLD * ScoreDen

\* confidence > (ML_CONFIDENCE_THRESHOLD / 100.0)
AboveThreshold(confidence) == confidence * 100 > ML_CONFIDENCE_THRESHOLD * ScoreDen

\* variant: the PEST_RISK case sends the WATER_STRESS alert (a copied case)
AlertFor_CopiedCase(result) ==
  IF result.valid /\ AboveThreshold(result.confidence)
  THEN IF result.predicted_class = CLASS_WATER_STRESS THEN << ALERT_WATER_STRESS >>
       ELSE IF result.predicted_class = CLASS_PEST_RISK THEN << ALERT_WATER_STRESS >>
       ELSE << >>
  ELSE << >>

\* the switch of process_sensor_data: the alert to send, if any
AlertFor(result) ==
  IF result.valid /\ AboveThreshold(result.confidence)
  THEN IF result.predicted_class = CLASS_WATER_STRESS THEN << ALERT_WATER_STRESS >>
       ELSE IF result.predicted_class = CLASS_PEST_RISK THEN << ALERT_PEST_RISK >>
       ELSE << >>
  ELSE << >>

\* process_sensor_data
ProcessSensorData ==
  /\ pc = "process"
  /\ \E invoke \in InvokeOutcomes :
       LET result == RunMlInference(ml, invoke.ok, invoke.output_data, system_tick)
           alert == AlertFor(result)
       IN
       /\ ml_result' = result
       /\ IF alert = << >>
          THEN UNCHANGED << wireless_connected, last_alert_time, callLog, sentLog >>
          ELSE \E env \in TransportEnvs :
                 \* the sample is copied over whatever alert.sensor_data's slot held
                 LET r == SendWirelessAlert("process", alert[1], TRUE, current_sensor_data,
                                            result.confidence, system_tick,
                                            wireless_connected, last_alert_time, env, NoSample)
                 IN /\ wireless_connected' = r.connected
                    /\ last_alert_time' = r.last
                    /\ callLog' = Append(callLog, r)
                    /\ sentLog' = sentLog \o Delivered(r)
  /\ pc' = StepAfter(pc)
  /\ phaseLog' = Append(phaseLog, "process")
  /\ UNCHANGED << system_tick, current_sensor_data, alert_pending, ml, battery_voltage,
                  cycle, ncyc, njump >>
  /\ UNCHANGED cb

\* variant: the battery is checked in the first cycle only
BatteryDue_BootOnly(tick) == tick = 0

\* if (system_tick % BATTERY_CHECK_INTERVAL == 0) check_battery_level();
BatteryDue(tick) == tick % Ms(BATTERY_CHECK_INTERVAL) = 0

\* variant: a voltage equal to the threshold counts as low
BatteryLow_Inclusive(voltage) == voltage <= BATTERY_LOW_THRESHOLD

\* check_battery_level: if (battery_voltage < BATTERY_LOW_THRESHOLD)
BatteryLow(voltage) == voltage < BATTERY_LOW_THRESHOLD

BatteryCheck ==
  /\ pc = "battery"
  /\ IF ~BatteryDue(system_tick)
     THEN UNCHANGED << wireless_connected, last_alert_time, callLog, sentLog, phaseLog,
                       battery_voltage >>
     ELSE /\ phaseLog' = Append(phaseLog, "battery")
          /\ \E voltage \in BatteryVoltages :
               /\ battery_voltage' = << voltage >>
               /\ IF ~BatteryLow(voltage)
                  THEN UNCHANGED << wireless_connected, last_alert_time, callLog, sentLog >>
                  ELSE \E env \in TransportEnvs, stack \in StackResidue :
                         LET r == SendWirelessAlert("battery", ALERT_LOW_BATTERY, FALSE,
                                                    NoSample, 0, system_tick,
                                                    wireless_connected, last_alert_time, env,
                                                    stack)
                         IN /\ wireless_connected' = r.connected
                            /\ last_alert_time' = r.last
                            /\ callLog' = Append(callLog, r)
                            /\ sentLog' = sentLog \o Delivered(r)
  /\ pc' = StepAfter(pc)
  /\ ml_result' = NoResult
  /\ UNCHANGED << system_tick, current_sensor_data, alert_pending, ml, cycle, ncyc, njump >>
  /\ UNCHANGED cb

\* enter_low_power_mode
EnterLowPowerMode ==
  /\ pc = "sleep"
  /\ pc' = StepAfter(pc)
  /\ phaseLog' = Append(phaseLog, "sleep")
  /\ callLog' = << >>
  /\ battery_voltage' = << >>
  /\ UNCHANGED << system_tick, current_sensor_data, alert_pending, wireless_connected,
                  last_alert_time, ml, ml_result, cycle, sentLog, ncyc, njump >>
  /\ UNCHANGED cb

\* system_tick += SENSOR_READ_INTERVAL_MS;
AdvanceTick ==
  /\ pc = "tick"
  /\ system_tick' = U32(system_tick + Ms(SENSOR_READ_INTERVAL_MS))
  /\ cycle' = cycle + 1
  /\ ncyc' = ncyc + 1
  /\ pc' = StepAfter(pc)
  /\ UNCHANGED << current_sensor_data, alert_pending, wireless_connected, last_alert_time,
                  ml, ml_result, battery_voltage, phaseLog, callLog, sentLog, njump >>
  /\ UNCHANGED cb

\* n whole iterations of the loop in which the classifier reports NORMAL and the
\* battery is healthy: no alert is raised, only the tick and the sample move
QuietCycles ==
  /\ pc = "read"
  /\ ncyc + njump < MaxPasses
  /\ \E n \in QuietRuns :
       LET last_tick == U32(system_tick + (n - 1) * Ms(SENSOR_READ_INTERVAL_MS)) IN
       /\ system_tick' = U32(system_tick + n * Ms(SENSOR_READ_INTERVAL_MS))
       /\ cycle' = cycle + n
       /\ current_sensor_data' =
            [ soil_moisture |-> GoodReading.soil_moisture,
              temperature |-> GoodReading.temperature,
              humidity |-> GoodReading.humidity,
              audio_energy |-> GoodReading.audio_energy,
              timestamp |-> last_tick ]
       /\ ml_result' = NoResult
       /\ phaseLog' = IF BatteryDue(last_tick)
                      THEN << "read", "process", "battery", "sleep" >>
                      ELSE << "read", "process", "sleep" >>
  /\ callLog' = << >>
  /\ njump' = njump + 1
  /\ UNCHANGED << pc, alert_pending, wireless_connected, last_alert_time, ml,
                  battery_voltage, sentLog, ncyc >>
  /\ UNCHANGED cb

Next ==
  \/ SystemInit
  \/ ReadAllSensors
  \/ ProcessSensorData
  \/ BatteryCheck
  \/ EnterLowPowerMode
  \/ AdvanceTick
  \/ QuietCycles

Spec == Init /\ [][Next]_vars

\* main() is the only thread of control and every call it makes returns
FairSpec == Spec /\ WF_vars(Next)

\* ------------------------------------------------------------------- claims

\* a step in which send_wireless_alert was called, and that call's record
CallMade == Len(callLog') = Len(callLog) + 1
NewCall == callLog'[Len(callLog')]

\* C1: a send_wireless_alert call made while (system_tick - last_alert_time),
\* taken in uint32_t, is below MIN_ALERT_INTERVAL_MS returns false, attempts no
\* connect and no POST, queues nothing, and leaves last_alert_time and
\* wireless_connected as they were.
C1_RateLimitedIsDropped ==
  [][ (CallMade /\ U32(system_tick - last_alert_time) < Ms(MIN_ALERT_INTERVAL_MS))
        => /\ NewCall.outcome = "rate_limited"
           /\ NewCall.ret = FALSE
           /\ NewCall.connects = 0 /\ NewCall.polls = 0 /\ NewCall.posts = 0
           /\ last_alert_time' = last_alert_time
           /\ wireless_connected' = wireless_connected
           /\ alert_pending = FALSE /\ alert_pending' = FALSE
           /\ sentLog' = sentLog ]_vars

\* C1 witness: a call of the running cycle was dropped by the rate limiter
C1_Witness ==
  \E i \in DOMAIN callLog :
    /\ callLog[i].outcome = "rate_limited"
    /\ callLog[i].cooperative
    /\ cycle > 0

\* alerts delivered before the i-th call of the running cycle was made
SentBefore(i) ==
  Len(sentLog) - Cardinality({j \in i..Len(callLog) : callLog[j].outcome = "sent"})

\* C2: of two intents of any kinds submitted less than 300000 ms apart, the
\* first submitted when nothing was sent before and with a transport that
\* connects and delivers, the first is sent and the second is rate-limited.
C2_FirstSentSecondLimited ==
  \A i \in DOMAIN callLog :
    /\ (SentBefore(i) = 0 /\ callLog[i].cooperative) => callLog[i].outcome = "sent"
    /\ \A k \in DOMAIN sentLog :
         (k <= SentBefore(i)
            /\ (cycle - sentLog[k].cycle) * Ms(SENSOR_READ_INTERVAL_MS) < Ms(MIN_ALERT_INTERVAL_MS))
           => callLog[i].outcome = "rate_limited"

C4_StampOnlyOnDelivery ==
  [][ /\ last_alert_time' # last_alert_time
         => /\ CallMade
            /\ NewCall.outcome = "sent"
            /\ NewCall.posts = 1 /\ NewCall.post_ok /\ NewCall.status_code = HTTP_OK
      /\ (CallMade /\ NewCall.posts = 1 /\ NewCall.post_ok /\ NewCall.status_code = HTTP_OK)
         => /\ NewCall.outcome = "sent"
            /\ last_alert_time' = system_tick
            /\ last_alert_time' = current_sensor_data.timestamp
      /\ (CallMade /\ NewCall.outcome # "sent") => last_alert_time' = last_alert_time ]_vars

\* C4 witness: an alert was delivered in a cycle other than the first and
\* last_alert_time holds that cycle's tick
C4_Witness ==
  /\ \E i \in DOMAIN callLog : callLog[i].outcome = "sent"
  /\ last_alert_time = system_tick
  /\ last_alert_time # 0

\* C5: last_alert_time never decreases, however long the run.
C5_LastAlertTimeMonotone == [][last_alert_time' >= last_alert_time]_vars

\* the calls process_sensor_data made in the running cycle
ProcessCalls == SelectSeq(callLog, LAMBDA r : r.caller = "process")

\* C6: after a successful inference an alert is submitted only when the winning
\* confidence is strictly above 70/100: none at exactly the threshold, and one
\* for every confidence above it whose class is not NORMAL.
C6_ThresholdIsStrict ==
  ml_result.valid =>
    /\ ProcessCalls # << >>
         => ml_result.confidence * 100 > ML_CONFIDENCE_THRESHOLD * ScoreDen
    /\ ml_result.confidence * 100 = ML_CONFIDENCE_THRESHOLD * ScoreDen
         => ProcessCalls = << >>
    /\ ( ml_result.confidence * 100 > ML_CONFIDENCE_THRESHOLD * ScoreDen
          /\ ml_result.predicted_class # CLASS_NORMAL )
         => Len(ProcessCalls) = 1

\* C6 witness: a non-NORMAL class won with a confidence of exactly 70/100 and
\* nothing was submitted
C6_Witness ==
  /\ ml_result.valid
  /\ ml_result.predicted_class # CLASS_NORMAL
  /\ ml_result.confidence * 100 = ML_CONFIDENCE_THRESHOLD * ScoreDen
  /\ callLog = << >>

\* C7: NORMAL never submits an alert; WATER_STRESS above the threshold submits
\* exactly one water-stress alert and PEST_RISK above it exactly one pest-risk
\* alert, each with the cycle's sample; the decision step submits no other kind.
C7_ClassToAlertKind ==
  /\ \A i \in DOMAIN ProcessCalls :
       /\ ProcessCalls[i].alert_type \in {ALERT_WATER_STRESS, ALERT_PEST_RISK}
       /\ ProcessCalls[i].has_data
       /\ ProcessCalls[i].sensor_data = current_sensor_data
       /\ ProcessCalls[i].sensor_data.timestamp = system_tick
  /\ ml_result.valid =>
       LET above == ml_result.confidence * 100 > ML_CONFIDENCE_THRESHOLD * ScoreDen IN
       /\ ml_result.predicted_class \in {CLASS_NORMAL, CLASS_WATER_STRESS, CLASS_PEST_RISK}
       /\ ml_result.predicted_class = CLASS_NORMAL => ProcessCalls = << >>
       /\ (ml_result.predicted_class = CLASS_WATER_STRESS /\ above)
            => Len(ProcessCalls) = 1 /\ ProcessCalls[1].alert_type = ALERT_WATER_STRESS
       /\ (ml_result.predicted_class = CLASS_PEST_RISK /\ above)
            => Len(ProcessCalls) = 1 /\ ProcessCalls[1].alert_type = ALERT_PEST_RISK

\* C7 witness: NORMAL won with a confidence above the threshold, nothing submitted
C7_Witness ==
  /\ ml_result.valid
  /\ ml_result.predicted_class = CLASS_NORMAL
  /\ ml_result.confidence * 100 > ML_CONFIDENCE_THRESHOLD * ScoreDen
  /\ callLog = << >>

\* C8: the predicted class is the index of the maximum score, and the lowest
\* such index when several scores tie for the maximum.
C8_ArgmaxLowestIndex ==
  ml_result.valid =>
    LET p == ml_result.predicted_class IN
    /\ p \in 0..2
    /\ \A j \in 0..2 : ml_result.raw_scores[j] <= ml_result.raw_scores[p]
    /\ \A j \in 0..2 : j < p => ml_result.raw_scores[j] < ml_result.raw_scores[p]

\* C8 witness: scores 0 and 1 tie for the maximum and class 0 is predicted
C8_Witness ==
  /\ ml_result.valid
  /\ ml_result.raw_scores[0] = ml_result.raw_scores[1]
  /\ ml_result.raw_scores[2] < ml_result.raw_scores[0]
  /\ ml_result.predicted_class = 0

\* the step sequences of one complete pass of the loop body
ActivePhase == { << "read", "process" >>, << "read", "process", "battery" >> }
FullCycle == { Append(a, "sleep") : a \in ActivePhase }

\* C9: every cycle runs sensor read, inference/decision with its dispatch, the
\* optional battery check, then sleep, entering sleep exactly once before the
\* next sensor read whatever the cycle's outcome; between entering sleep and
\* the next cycle's read nothing is read, inferred or dispatched.
C9_ActiveThenSleep ==
  /\ [](/\ pc \in {"init", "read", "process", "battery", "sleep", "tick"}
        /\ pc = "init" => phaseLog = << >>
        /\ pc = "process" => phaseLog = << "read" >>
        /\ pc = "battery" => phaseLog = << "read", "process" >>
        /\ pc = "sleep" => phaseLog \in ActivePhase
        /\ pc = "tick" => phaseLog \in FullCycle
        /\ pc = "read" => (phaseLog \in FullCycle \/ (phaseLog = << >> /\ cycle = 0))
        /\ pc \in {"tick", "read"} => callLog = << >>)
  /\ [][ /\ current_sensor_data' # current_sensor_data
             => pc = "read" /\ (phaseLog \in FullCycle \/ cycle = 0)
         /\ (ml_result' # ml_result \/ callLog' # callLog \/ sentLog' # sentLog
               \/ last_alert_time' # last_alert_time
               \/ wireless_connected' # wireless_connected)
             => pc \in {"process", "battery", "sleep"} /\ ~(phaseLog \in FullCycle)
         /\ (phaseLog \in FullCycle /\ pc = "tick")
             => /\ phaseLog' = phaseLog
                /\ cycle' = cycle + 1
                /\ system_tick' = U32(system_tick + Ms(SENSOR_READ_INTERVAL_MS))
         /\ cycle' # cycle => phaseLog \in FullCycle \/ (cycle = 0 /\ pc = "read") ]_vars

\* C9 witness: a cycle that followed a completed one, and in which the device
\* never got connected, has entered sleep
C9_Witness ==
  /\ pc = "tick"
  /\ phaseLog \in FullCycle
  /\ ncyc >= 1
  /\ ~wireless_connected

\* C10: the loop never stops: whatever fails in a cycle (sensor, inference,
\* rate limit, connect timeout, POST), the cycle ends and the next one begins
\* with system_tick advanced; wireless_connect gives up after at most 10 polls.
C10_LoopNeverStops ==
  /\ (pc = "init") ~> (pc = "read")
  /\ (pc = "process") ~> (pc = "read")
  /\ [][ (pc \notin {"init", "read"} /\ pc' = "read")
          => /\ system_tick' = U32(system_tick + Ms(SENSOR_READ_INTERVAL_MS))
             /\ cycle' = cycle + 1 ]_vars
  /\ [](system_tick = U32(cycle * Ms(SENSOR_READ_INTERVAL_MS)))
  /\ [](\A i \in DOMAIN callLog :
          callLog[i].connects <= 1 /\ callLog[i].polls <= CONNECT_RETRIES)

\* C10 witness: after a completed cycle, a connect attempt timed out after its
\* 10 polls in a cycle whose sensors and inference had already run
C10_Witness ==
  /\ ncyc >= 1
  /\ \E i \in DOMAIN callLog :
       callLog[i].outcome = "connect_failed" /\ callLog[i].polls = CONNECT_RETRIES

\* C11: the battery check runs in exactly the cycles whose index is a multiple
\* of BATTERY_CHECK_INTERVAL / SENSOR_READ_INTERVAL_MS = 120, in every cycle of
\* the run, the cycles after system_tick has wrapped included.
C11_BatteryEveryNCycles ==
  LET checked == \E i \in DOMAIN phaseLog : phaseLog[i] = "battery" IN
  /\ pc = "sleep" => (checked <=> cycle % CyclesPerBatteryCheck = 0)
  /\ (pc \in {"tick", "read"} /\ phaseLog \in FullCycle)
       => (checked <=> (IF pc = "tick" THEN cycle ELSE cycle - 1) % CyclesPerBatteryCheck = 0)

\* the calls check_battery_level made in the running cycle
BatteryCalls == SelectSeq(callLog, LAMBDA r : r.caller = "battery")

\* C12: a battery check submits a LOW_BATTERY alert, with no sample and
\* confidence 0, to send_wireless_alert if and only if the measured voltage is
\* strictly below BATTERY_LOW_THRESHOLD; at the threshold or above it submits
\* nothing. The submission goes through the same rate limiter as any other.
C12_LowBatteryIffBelow ==
  /\ (pc = "sleep" /\ battery_voltage = << >>) => BatteryCalls = << >>
  /\ (pc = "sleep" /\ battery_voltage # << >>) =>
       /\ battery_voltage[1] < BATTERY_LOW_THRESHOLD <=> Len(BatteryCalls) = 1
       /\ battery_voltage[1] >= BATTERY_LOW_THRESHOLD => BatteryCalls = << >>
  /\ \A i \in DOMAIN BatteryCalls :
       LET r == BatteryCalls[i] IN
       /\ r.alert_type = ALERT_LOW_BATTERY
       /\ ~r.has_data
       /\ r.confidence = 0
       /\ r.tick = system_tick
       /\ r.outcome # "sent"
            => (r.outcome = "rate_limited"
                  <=> U32(r.tick - r.last) < Ms(MIN_ALERT_INTERVAL_MS))
       /\ r.outcome = "sent" => r.last = r.tick

\* C12 witness: the check measured exactly the threshold and submitted nothing
C12_Witness ==
  /\ pc = "sleep"
  /\ battery_voltage = << BATTERY_LOW_THRESHOLD >>
  /\ BatteryCalls = << >>
  /\ cycle > 0

\* C13: an alert is handed to send_wireless_alert once, in the cycle that
\* raised it, and a call makes at most one POST: a failed POST is not repeated
\* in the call or the cycle, and nothing is kept to be submitted in a later
\* cycle (every call of a cycle is for that cycle's own result or voltage).
C13_OneSubmissionOnePost ==
  /\ \A i \in DOMAIN callLog :
       /\ callLog[i].posts <= 1
       /\ callLog[i].connects <= 1
       /\ callLog[i].tick = system_tick
  /\ Len(ProcessCalls) <= 1
  /\ Len(BatteryCalls) <= 1
  /\ alert_pending = FALSE
  /\ pc \in {"read", "tick", "process"} => callLog = << >>
  /\ (pc = "battery" /\ ProcessCalls # << >>) =>
       /\ ml_result.valid
       /\ ml_result.predicted_class \in {CLASS_WATER_STRESS, CLASS_PEST_RISK}
       /\ ml_result.confidence * 100 > ML_CONFIDENCE_THRESHOLD * ScoreDen
       /\ ProcessCalls[1].confidence = ml_result.confidence
       /\ ProcessCalls[1].sensor_data = current_sensor_data
  /\ (pc = "sleep" /\ BatteryCalls # << >>) =>
       /\ battery_voltage # << >>
       /\ battery_voltage[1] < BATTERY_LOW_THRESHOLD

\* C13 witness: the device got connected in an earlier cycle but nothing was
\* ever delivered (an alert failed after the connect), and the running cycle
\* has reached sleep without submitting anything
C13_Witness ==
  /\ pc = "sleep"
  /\ ncyc >= 1
  /\ wireless_connected
  /\ sentLog = << >>
  /\ callLog = << >>

\* C14: a send_wireless_alert call that is not rate-limited and finds the
\* device not connected attempts the connect, once; if the connect fails the
\* call returns false without a POST and leaves last_alert_time and
\* wireless_connected as they were; a call that finds the device connected
\* attempts no connect.
C14_ConnectFailureDrops ==
  [][ CallMade =>
        /\ (U32(system_tick - last_alert_time) >= Ms(MIN_ALERT_INTERVAL_MS)
              /\ ~wireless_connected)
             => /\ NewCall.connects = 1
                /\ NewCall.polls <= CONNECT_RETRIES
                /\ NewCall.outcome # "connect_failed" => wireless_connected'
        /\ wireless_connected => NewCall.connects = 0 /\ NewCall.outcome # "connect_failed"
        /\ NewCall.outcome = "connect_failed"
             => /\ NewCall.ret = FALSE
                /\ NewCall.posts = 0
                /\ NewCall.connects = 1
                /\ last_alert_time' = last_alert_time
                /\ wireless_connected' = wireless_connected
                /\ sentLog' = sentLog
                /\ alert_pending' = FALSE ]_vars

\* C14 witness: a LOW_BATTERY alert that was not rate-limited was dropped
\* because the Wi-Fi profile was rejected, the device is still not connected
C14_Witness ==
  /\ \E i \in DOMAIN callLog :
       /\ callLog[i].caller = "battery"
       /\ callLog[i].outcome = "connect_failed"
       /\ callLog[i].polls = 0
  /\ ~wireless_connected
  /\ cycle > 0

\* a sample in which a driver reported its error result
SensorError(d) ==
  \/ d.soil_moisture = -1
  \/ d.temperature = -100
  \/ d.humidity = -1
  \/ d.audio_energy = -1

\* C15: in a cycle in which a sensor read returned its error result, the
\* classifier is not run and no classifier alert is submitted.
C15_SensorErrorSkipsInference ==
  (pc = "battery" /\ SensorError(current_sensor_data))
    => ~ml_result.valid /\ ProcessCalls = << >>

\* ml_model_init returned true: the interpreter and both tensors are set
MlReady(m) == m.interpreter /\ m.input_tensor /\ m.output_tensor

\* C16: when ml_model_init fails at startup (schema version mismatch or tensor
\* allocation failure) the main loop is never entered: main() is past
\* system_init only with an initialised classifier, and every sensor read,
\* inference, dispatch and sleep happens with an initialised classifier.
C16_InitFailureIsFatal ==
  /\ pc # "init" => MlReady(ml)
  /\ phaseLog # << >> => MlReady(ml)

\* C17: after ml_model_init failed, every run_ml_inference call of every later
\* cycle returns false at its guard: Invoke() is not called, and neither the
\* input tensor nor *result is written; the statics a failed init left are
\* never changed afterwards.
C17_NoInferenceAfterFailedInit ==
  /\ []((pc = "battery" /\ ~MlReady(ml))
          => /\ ~ml_result.valid
             /\ ~ml_result.invoked
             /\ ~ml_result.input_written
             /\ ~ml_result.result_written
             /\ ProcessCalls = << >>)
  /\ [][pc # "init" => ml' = ml]_vars

\* C17 witness: AllocateTensors failed at startup (the interpreter is set, the
\* tensors are not) and process_sensor_data has returned in a later cycle
C17_Witness ==
  /\ pc = "battery"
  /\ ml.interpreter /\ ~ml.input_tensor
  /\ ncyc >= 1
  /\ ~ml_result.invoked

\* C18: in a cycle in which Invoke() fails, run_ml_inference returns false and
\* has not written *result, process_sensor_data submits no alert, and
\* process_sensor_data leaves last_alert_time and wireless_connected alone.
C18_InvokeFailureSkipsDecision ==
  /\ []((pc = "battery" /\ ml_result.invoke_failed)
          => /\ ml_result.invoked
             /\ ~ml_result.valid
             /\ ~ml_result.result_written
             /\ ProcessCalls = << >>)
  /\ [][ (pc = "process" /\ ml_result'.invoke_failed)
           => /\ last_alert_time' = last_alert_time
              /\ wireless_connected' = wireless_connected
              /\ callLog' = callLog
              /\ sentLog' = sentLog
              /\ alert_pending' = alert_pending ]_vars

\* C18 witness: Invoke() failed in a cycle that came after a delivered alert,
\* whose time last_alert_time still holds
C18_Witness ==
  /\ pc = "battery"
  /\ ml_result.invoke_failed
  /\ sentLog # << >>
  /\ last_alert_time = sentLog[Len(sentLog)].tick
  /\ last_alert_time # system_tick

\* C19: the payload of an alert carries the sensor_data object only when the
\* alert was submitted with a sample, and then with that sample's four values;
\* the payload of an alert submitted without one (LOW_BATTERY) carries no
\* sensor_data, and no value the submission did not set.
C19_PayloadSnapshotOnlyIfGiven ==
  \A i \in DOMAIN callLog :
    \A k \in DOMAIN callLog[i].payload :
      LET r == callLog[i]
          p == r.payload[k]
      IN
      /\ p.alert_type = r.alert_type
      /\ p.timestamp = r.tick
      /\ r.has_data
           => p.sensor_data = << [ moisture |-> r.sensor_data.soil_moisture * 10,
                                   temperature |-> r.sensor_data.temperature * 10,
                                   humidity |-> r.sensor_data.humidity * 10,
                                   audio |-> r.sensor_data.audio_energy * 100 ] >>
      /\ ~r.has_data => p.sensor_data = << >>

\* ------------------------------------------- input quantization, on its own

\* a feature is numerator / FeatureDen: soil/100, (temperature - 10)/40,
\* humidity/100, audio
FeatureDen == 200
Features(d) ==
  << d.soil_moisture * 2, (d.temperature - 10) * 5, d.humidity * 2,
     d.audio_energy * FeatureDen >>

\* samples and input quantization parameters (input_scale = 1 / inv_scale)
QuantSamples ==
  { [ soil_moisture |-> s, temperature |-> t, humidity |-> h, audio_energy |-> a,
      timestamp |-> 0 ] :
      s \in {-1, 1, 50, 100}, t \in {-100, 10, 50}, h \in {-1, 45, 100}, a \in {-1, 0, 1} }
InputQuantParams ==
  { [inv_scale |-> 250, zero_point |-> -128],
    [inv_scale |-> 256, zero_point |-> -128],
    [inv_scale |-> 200, zero_point |-> 0] }

\* a / b for b > 0, with the fraction dropped (toward zero) and with the
\* fraction rounded half away from zero
TruncDiv(a, b) == IF a >= 0 THEN a \div b ELSE -((-a) \div b)
RoundHalfAwayDiv(a, b) ==
  IF a >= 0 THEN (2 * a + b) \div (2 * b) ELSE -((2 * (-a) + b) \div (2 * b))

Wrap8(x) == ((x + 128) % 256) - 128
Saturate8(x) == IF x < -128 THEN -128 ELSE IF x > 127 THEN 127 ELSE x

\* (int8_t) of a float whose integral part is x: defined inside int8_t; outside
\* it the conversion is undefined, and builds wrap, saturate or give 0
CastToInt8(x) == IF x \in -128..127 THEN {x} ELSE {Wrap8(x), Saturate8(x), 0}

\* (int8_t)(features[i] / input_scale + input_zero_point)
QuantizeFeature(f, m) ==
  CastToInt8(TruncDiv(f * m.inv_scale + m.zero_point * FeatureDen, FeatureDen))

QuantInit ==
  /\ pc = "quantize"
  /\ current_sensor_data \in QuantSamples
  /\ \E q \in InputQuantParams :
       ml = [ interpreter |-> TRUE, input_tensor |-> TRUE, output_tensor |-> TRUE,
              inv_scale |-> q.inv_scale, zero_point |-> q.zero_point,
              input_data |-> << >> ]
  /\ system_tick = 0
  /\ alert_pending = FALSE
  /\ wireless_connected = FALSE
  /\ last_alert_time = 0
  /\ ml_result = NoResult
  /\ battery_voltage = << >>
  /\ cycle = 0
  /\ phaseLog = << >>
  /\ callLog = << >>
  /\ sentLog = << >>
  /\ ncyc = 0
  /\ njump = 0
  /\ cb = NoBuffer

\* the quantization loop of run_ml_inference and the memcpy to the input tensor
QuantizeInput ==
  /\ pc = "quantize"
  /\ LET features == Features(current_sensor_data) IN
     \E q1 \in QuantizeFeature(features[1], ml), q2 \in QuantizeFeature(features[2], ml),
        q3 \in QuantizeFeature(features[3], ml), q4 \in QuantizeFeature(features[4], ml) :
       ml' = [ml EXCEPT !.input_data = << q1, q2, q3, q4 >>]
  /\ pc' = "quantized"
  /\ UNCHANGED << system_tick, current_sensor_data, alert_pending, wireless_connected,
                  last_alert_time, ml_result, battery_voltage, cycle, phaseLog, callLog,
                  sentLog, ncyc, njump >>
  /\ UNCHANGED cb

QuantNext == QuantizeInput

QuantSpec == QuantInit /\ [][QuantNext]_vars

\* C20: every int8 written to the input tensor is
\* clamp(round(f / scale) + zero_point, -128, 127), rounding half away from
\* zero; a value outside [-128, 127] saturates.
C20_QuantizeRoundsAndClamps ==
  pc = "quantized" =>
    \A i \in 1..4 :
      ml.input_data[i] =
        Saturate8(RoundHalfAwayDiv(Features(current_sensor_data)[i] * ml.inv_scale, FeatureDen)
                    + ml.zero_point)

\* --------------------------- the classifier path over any output parameters

\* output quantization parameters a model file can carry: 1/256 with zero
\* point -128 (an int8 softmax), 1/260 and 1/128 with zero point -128, and 1/256
\* with zero point 0
WideQuantParams ==
  { [scale |-> 65, zero_point |-> -128],
    [scale |-> 64, zero_point |-> -128],
    [scale |-> 130, zero_point |-> -128],
    [scale |-> 65, zero_point |-> 0] }

\* main() about to call process_sensor_data, at boot and one alert window later
ScoreInit ==
  /\ pc = "process"
  /\ system_tick \in {0, Ms(MIN_ALERT_INTERVAL_MS)}
  /\ \E r \in SensorReadings :
       current_sensor_data =
         [ soil_moisture |-> r.soil_moisture, temperature |-> r.temperature,
           humidity |-> r.humidity, audio_energy |-> r.audio_energy,
           timestamp |-> system_tick ]
  /\ \E q \in WideQuantParams : ml = MlModelInit("ok", q)
  /\ cycle = system_tick \div Ms(SENSOR_READ_INTERVAL_MS)
  /\ alert_pending = FALSE
  /\ wireless_connected = FALSE
  /\ last_alert_time = 0
  /\ ml_result = NoResult
  /\ battery_voltage = << >>
  /\ phaseLog = << "read" >>
  /\ callLog = << >>
  /\ sentLog = << >>
  /\ ncyc = 0
  /\ njump = 0
  /\ cb = NoBuffer

ScoreNext == ProcessSensorData

ScoreSpec == ScoreInit /\ [][ScoreNext]_vars

\* C21: after a successful inference the confidence is the raw score of the
\* predicted class, each raw score is (q_i - output_zero_point) * output_scale,
\* and the confidence and the three raw scores lie in [0, 1].
C21_ScoresConsistentInUnitRange ==
  (pc = "battery" /\ ml_result.valid) =>
    /\ ml_result.confidence = ml_result.raw_scores[ml_result.predicted_class]
    /\ \A i \in 0..2 :
         /\ ml_result.raw_scores[i]
              = (ml_result.output_data[i] - ml.output_zero_point) * ml.output_scale
         /\ ml_result.raw_scores[i] >= 0
         /\ ml_result.raw_scores[i] <= ScoreDen
    /\ ml_result.confidence >= 0
    /\ ml_result.confidence <= ScoreDen

\* ------------------------------------------------ the inference time budget

ML_MAX_INFERENCE_TIME_MS == 50

\* how long Invoke() really takes, in ms: below, at and above the budget
InvokeDurations == {10, ML_MAX_INFERENCE_TIME_MS, ML_MAX_INFERENCE_TIME_MS + 1, 80}

\* main() about to call process_sensor_data with a model whose Invoke() takes
\* ml.invoke_ms; nothing writes system_tick while process_sensor_data runs
TimingInit ==
  /\ pc = "process"
  /\ system_tick \in {0, Ms(MIN_ALERT_INTERVAL_MS)}
  /\ \E r \in SensorReadings :
       current_sensor_data =
         [ soil_moisture |-> r.soil_moisture, temperature |-> r.temperature,
           humidity |-> r.humidity, audio_energy |-> r.audio_energy,
           timestamp |-> system_tick ]
  /\ \E q \in QuantParams, d \in InvokeDurations :
       ml = MlModelInit("ok", q) @@ [invoke_ms |-> d]
  /\ cycle = system_tick \div Ms(SENSOR_READ_INTERVAL_MS)
  /\ alert_pending = FALSE
  /\ wireless_connected = FALSE
  /\ last_alert_time = 0
  /\ ml_result = NoResult
  /\ battery_voltage = << >>
  /\ phaseLog = << "read" >>
  /\ callLog = << >>
  /\ sentLog = << >>
  /\ ncyc = 0
  /\ njump = 0
  /\ cb = NoBuffer

TimingNext == ProcessSensorData

TimingSpec == TimingInit /\ [][TimingNext]_vars

\* C22: a successful inference that took longer than ML_MAX_INFERENCE_TIME_MS
\* still returns its result, and the result tells the caller it was over
\* budget: the only timing the result carries, inference_time_us, is above the
\* budget.
C22_OverBudgetResultIsMarked ==
  (pc = "battery" /\ ml_result.valid /\ ml.invoke_ms > ML_MAX_INFERENCE_TIME_MS) =>
    ml_result.inference_time_us > Ms(ML_MAX_INFERENCE_TIME_MS * 1000)

\* ------------------------------------------------- utils.h: circular buffer

Capacity == 3

\* the values pushed
BufferValues == {1, 2}

\* circular_buffer_init: an empty buffer over size slots
CircularBufferInit(size) ==
  [ size |-> size, head |-> 0, tail |-> 0, count |-> 0, buffer |-> [i \in 1..size |-> 0] ]

\* the values held, oldest first
Contents(c) == [i \in 1..c.count |-> c.buffer[((c.head + i - 1) % c.size) + 1]]

\* variant: a push into a full buffer overwrites the oldest value
CircularBufferPush_Evict(c, value) ==
  IF c.count = c.size
  THEN [ cb |-> [c EXCEPT !.buffer[c.tail + 1] = value,
                          !.tail = (c.tail + 1) % c.size,
                          !.head = (c.head + 1) % c.size],
         ret |-> TRUE ]
  ELSE [ cb |-> [c EXCEPT !.buffer[c.tail + 1] = value,
                          !.tail = (c.tail + 1) % c.size,
                          !.count = c.count + 1],
         ret |-> TRUE ]

\* circular_buffer_push: false if the buffer is full, else the value is stored
\* at the tail
CircularBufferPush(c, value) ==
  IF c.count = c.size
  THEN [ cb |-> c, ret |-> FALSE ]
  ELSE [ cb |-> [c EXCEPT !.buffer[c.tail + 1] = value,
                          !.tail = (c.tail + 1) % c.size,
                          !.count = c.count + 1],
         ret |-> TRUE ]

\* circular_buffer_pop: false if the buffer is empty, else the value at the head
\* is handed out and removed
CircularBufferPop(c) ==
  IF c.count = 0
  THEN [ cb |-> c, ret |-> FALSE, value |-> 0 ]
  ELSE [ cb |-> [c EXCEPT !.head = (c.head + 1) % c.size, !.count = c.count - 1],
         ret |-> TRUE, value |-> c.buffer[c.head + 1] ]

\* a buffer of 1..Capacity slots right after circular_buffer_init
BufferInit ==
  /\ pc = "buffer"
  /\ \E size \in 1..Capacity : cb = CircularBufferInit(size)
  /\ system_tick = 0
  /\ current_sensor_data = NoSample
  /\ alert_pending = FALSE
  /\ wireless_connected = FALSE
  /\ last_alert_time = 0
  /\ ml = MlUninitialised
  /\ ml_result = NoResult
  /\ battery_voltage = << >>
  /\ cycle = 0
  /\ phaseLog = << >>
  /\ callLog = << >>
  /\ sentLog = << >>
  /\ ncyc = 0
  /\ njump = 0

\* one call of circular_buffer_push; callLog keeps the call and the buffer it
\* found
BufferPush ==
  /\ pc = "buffer"
  /\ \E value \in BufferValues :
       LET r == CircularBufferPush(cb, value) IN
         /\ cb' = r.cb
         /\ callLog' = << [ op |-> "push", value |-> value, ret |-> r.ret, before |-> cb ] >>
  /\ UNCHANGED << pc, system_tick, current_sensor_data, alert_pending, wireless_connected,
                  last_alert_time, ml, ml_result, battery_voltage, cycle, phaseLog,
                  sentLog, ncyc, njump >>

\* one call of circular_buffer_pop
BufferPop ==
  /\ pc = "buffer"
  /\ LET r == CircularBufferPop(cb) IN
       /\ cb' = r.cb
       /\ callLog' = << [ op |-> "pop", value |-> r.value, ret |-> r.ret, before |-> cb ] >>
  /\ UNCHANGED << pc, system_tick, current_sensor_data, alert_pending, wireless_connected,
                  last_alert_time, ml, ml_result, battery_voltage, cycle, phaseLog,
                  sentLog, ncyc, njump >>

BufferNext ==
  \/ BufferPush
  \/ BufferPop

BufferSpec == BufferInit /\ [][BufferNext]_vars

\* C23: the buffer never holds more values than its capacity; a push into a
\* full buffer returns false and leaves the buffer, its contents, their order
\* and the count as they were (nothing is evicted); a pop from an empty buffer
\* returns false and leaves the buffer as it was.
C23_BufferBoundedNoEviction ==
  /\ cb.count <= cb.size
  /\ Len(Contents(cb)) = cb.count
  /\ \A k \in 1..Len(callLog) :
       LET c == callLog[k] IN
         /\ (c.op = "push" /\ c.before.count = c.before.size) =>
              /\ ~c.ret
              /\ cb = c.before
              /\ Contents(cb) = Contents(c.before)
         /\ (c.op = "pop" /\ c.before.count = 0) =>
              /\ ~c.ret
              /\ cb = c.before

\* a push was refused by a full buffer of Capacity slots whose head had moved
\* off slot 0
C23_Witness ==
  /\ callLog # << >>
  /\ callLog[1].op = "push"
  /\ ~callLog[1].ret
  /\ cb.size = Capacity
  /\ cb.count = Capacity
  /\ cb.head # 0
  /\ Contents(cb) # cb.buffer

\* ------------------------------------------- quantize, then dequantize back

\* one scale and zero point for both directions: scale = output_scale / ScoreDen
\* = 1 / inv_scale
RoundTripParams ==
  { [inv_scale |-> 256, scale |-> 65, zero_point |-> -128],
    [inv_scale |-> 260, scale |-> 64, zero_point |-> -128],
    [inv_scale |-> 128, scale |-> 130, zero_point |-> 0] }

RoundTripInit ==
  /\ pc = "quantize"
  /\ current_sensor_data \in QuantSamples
  /\ \E q \in RoundTripParams :
       ml = [ interpreter |-> TRUE, input_tensor |-> TRUE, output_tensor |-> TRUE,
              inv_scale |-> q.inv_scale, zero_point |-> q.zero_point,
              output_scale |-> q.scale, output_zero_point |-> q.zero_point,
              input_data |-> << >> ]
  /\ system_tick = 0
  /\ alert_pending = FALSE
  /\ wireless_connected = FALSE
  /\ last_alert_time = 0
  /\ ml_result = NoResult
  /\ battery_voltage = << >>
  /\ cycle = 0
  /\ phaseLog = << >>
  /\ callLog = << >>
  /\ sentLog = << >>
  /\ ncyc = 0
  /\ njump = 0
  /\ cb = NoBuffer

\* the dequantization of run_ml_inference, (q - zero_point) * scale, applied to
\* the four quantized features
DequantizeBack ==
  /\ pc = "quantized"
  /\ pc' = "dequantized"
  /\ ml_result' = [NoResult EXCEPT !.valid = TRUE] @@
                     [ raw_scores |-> [i \in 1..4 |-> Dequantize(ml.input_data[i], ml)] ]
  /\ UNCHANGED << system_tick, current_sensor_data, alert_pending, wireless_connected,
                  last_alert_time, ml, battery_voltage, cycle, phaseLog, callLog,
                  sentLog, ncyc, njump, cb >>

RoundTripNext ==
  \/ QuantizeInput
  \/ DequantizeBack

RoundTripSpec == RoundTripInit /\ [][RoundTripNext]_vars

\* feature i of the sample is within the representable range of the parameters:
\* f / scale + zero_point lies in [-128, 127]
Representable(i) ==
  LET x == Features(current_sensor_data)[i] * ml.inv_scale + ml.zero_point * FeatureDen IN
    x >= -128 * FeatureDen /\ x <= 127 * FeatureDen

\* dequantize(quantize(f)) - f for feature i, over FeatureDen * ScoreDen
RoundTripError(i) ==
  ml_result.raw_scores[i] * FeatureDen - Features(current_sensor_data)[i] * ScoreDen

\* C24: for a feature f within the representable range of (scale, zero_point),
\* dequantize(quantize(f)) differs from f by at most scale.
C24_RoundTripWithinOneStep ==
  pc = "dequantized" =>
    \A i \in 1..4 :
      Representable(i) =>
        /\ RoundTripError(i) <= ml.output_scale * FeatureDen
        /\ RoundTripError(i) >= -(ml.output_scale * FeatureDen)

\* a representable feature came back changed: once below and once above itself
\* (a negative f / scale + zero_point is truncated upwards)
C24_Witness ==
  /\ pc = "dequantized"
  /\ \E i \in 1..4 : Representable(i) /\ RoundTripError(i) < 0
  /\ \E i \in 1..4 : Representable(i) /\ RoundTripError(i) > 0

\* C25: the integer confidence of every encoded alert lies in 0..100 and is the
\* confidence of the call as a percentage (0 for LOW_BATTERY, which is submitted
\* with confidence 0); the conversion to 8 bits does not wrap.
C25_PayloadConfidenceIsPercentage ==
  \A k \in 1..Len(callLog) :
    callLog[k].payload # << >> =>
      /\ callLog[k].payload[1].confidence \in 0..100
      /\ callLog[k].payload[1].confidence = (callLog[k].confidence * 100) \div ScoreDen
      /\ (callLog[k].alert_type = ALERT_LOW_BATTERY => callLog[k].payload[1].confidence = 0)

\* C26: last_alert_time and system_tick both start at 0, so every alert
\* submitted in cycles 0..9, while system_tick is below MIN_ALERT_INTERVAL_MS,
\* the battery check's of cycle 0 included, is dropped as rate-limited without
\* a connect or a POST, and nothing has been delivered by then.
C26_BootWindowDropsAll ==
  cycle < CyclesPerAlertWindow =>
    /\ system_tick < Ms(MIN_ALERT_INTERVAL_MS)
    /\ last_alert_time = 0
    /\ ~wireless_connected
    /\ sentLog = << >>
    /\ \A i \in DOMAIN callLog :
         /\ callLog[i].outcome = "rate_limited"
         /\ ~callLog[i].ret
         /\ callLog[i].connects = 0 /\ callLog[i].polls = 0 /\ callLog[i].posts = 0

\* C26 witness: in cycle 0 the classifier's alert and the battery check's
\* LOW_BATTERY alert were both submitted to a transport that would have
\* delivered them
C26_Witness ==
  /\ cycle = 0
  /\ Len(callLog) = 2
  /\ callLog[1].caller = "process" /\ callLog[1].cooperative
  /\ callLog[2].caller = "battery" /\ callLog[2].cooperative
  /\ callLog[2].alert_type = ALERT_LOW_BATTERY
  /\ callLog[2].outcome = "rate_limited"

\* C27: wireless_connected is false at boot, becomes true only in a
\* send_wireless_alert call whose wireless_connect saw the connected state, and
\* is never reset; a call made while it is true does not connect again, whatever
\* POSTs have failed.
C27_ConnectedIsMonotone ==
  [][ /\ pc = "init" => ~wireless_connected
      /\ wireless_connected => wireless_connected'
      /\ (~wireless_connected /\ wireless_connected')
           => /\ CallMade
              /\ NewCall.connects = 1
              /\ NewCall.polls \in 1..CONNECT_RETRIES
              /\ NewCall.outcome \notin {"rate_limited", "connect_failed"}
      /\ (CallMade /\ NewCall.outcome = "connect_failed") => ~wireless_connected'
      /\ (CallMade /\ wireless_connected)
           => NewCall.connects = 0 /\ NewCall.polls = 0 ]_vars

\* C27 witness: connected in an earlier cycle, and a call of this cycle whose
\* POST failed was made without connecting
C27_Witness ==
  /\ wireless_connected
  /\ cycle > CyclesPerAlertWindow
  /\ \E i \in DOMAIN callLog :
       /\ callLog[i].outcome = "post_failed"
       /\ callLog[i].posts = 1
       /\ callLog[i].connects = 0

\* ------------------------------- a battery that stays low, a transport that
\* ------------------------------- always delivers, over the whole tick period

\* what Invoke() yields in the cycles that check the battery: a failure, a
\* NORMAL winner, and a WATER_STRESS and a PEST_RISK winner above the threshold;
\* in every other cycle the classifier reports NORMAL
DueInvokes ==
  { [ok |-> FALSE, output_data |-> QuietOutput],
    [ok |-> TRUE, output_data |-> QuietOutput],
    [ok |-> TRUE, output_data |-> [i \in 0..2 |-> IF i = 1 THEN 55 ELSE -128]],
    [ok |-> TRUE, output_data |-> [i \in 0..2 |-> IF i = 2 THEN 55 ELSE -128]] }

\* the voltages check_battery_level takes for low
LowVoltages == { v \in BatteryVoltages : BatteryLow(v) }

\* the loop after system_init, with the model loaded
LowBatteryInit ==
  /\ pc = "read"
  /\ system_tick = 0
  /\ current_sensor_data = NoSample
  /\ alert_pending = FALSE
  /\ wireless_connected = FALSE
  /\ last_alert_time = 0
  /\ \E q \in QuantParams, o \in DueInvokes :
       ml = MlModelInit("ok", q) @@ [due_invoke |-> o]
  /\ ml_result = NoResult
  /\ battery_voltage = << >>
  /\ cycle = 0
  /\ phaseLog = << >>
  /\ callLog = << >>
  /\ sentLog = << >>
  /\ ncyc = 0
  /\ njump = 0
  /\ cb = NoBuffer

\* the number of cycles, from the one starting at tick, that neither check the
\* battery nor see system_tick wrap. A tick that is a multiple of
\* BATTERY_CHECK_INTERVAL is a multiple of SENSOR_READ_INTERVAL_MS, and the
\* ticks between two wraps differ by multiples of SENSOR_READ_INTERVAL_MS: so
\* either none of them is due, or they are due every CyclesPerBatteryCheck cycles
IdleLength(tick) ==
  LET step == Ms(SENSOR_READ_INTERVAL_MS)
      due == Ms(BATTERY_CHECK_INTERVAL)
      toWrap == ((TickModulus - 1 - tick) \div step) + 1
      toDue == IF tick % step = 0 THEN ((due - (tick % due)) % due) \div step ELSE toWrap
  IN IF toDue < toWrap THEN toDue ELSE toWrap

\* IdleLength(system_tick) whole iterations of the loop in which the classifier
\* reports NORMAL and no battery check is due: only the tick and the sample move
LowBatteryIdleCycles ==
  /\ pc = "read"
  /\ IdleLength(system_tick) > 0
  /\ LET n == IdleLength(system_tick)
         last_tick == system_tick + (n - 1) * Ms(SENSOR_READ_INTERVAL_MS)
     IN
     /\ system_tick' = U32(system_tick + n * Ms(SENSOR_READ_INTERVAL_MS))
     /\ cycle' = (cycle + n) % TickModulus
     /\ current_sensor_data' =
          [ soil_moisture |-> GoodReading.soil_moisture,
            temperature |-> GoodReading.temperature,
            humidity |-> GoodReading.humidity,
            audio_energy |-> GoodReading.audio_energy,
            timestamp |-> last_tick ]
  /\ ml_result' = NoResult
  /\ phaseLog' = << "read", "process", "sleep" >>
  /\ callLog' = << >>
  /\ UNCHANGED << pc, alert_pending, wireless_connected, last_alert_time, ml,
                  battery_voltage, sentLog, ncyc, njump, cb >>

\* read_all_sensors in a cycle that checks the battery
LowBatteryReadAllSensors ==
  /\ pc = "read"
  /\ IdleLength(system_tick) = 0
  /\ current_sensor_data' =
       [ soil_moisture |-> GoodReading.soil_moisture,
         temperature |-> GoodReading.temperature,
         humidity |-> GoodReading.humidity,
         audio_energy |-> GoodReading.audio_energy,
         timestamp |-> system_tick ]
  /\ pc' = StepAfter(pc)
  /\ phaseLog' = << "read" >>
  /\ callLog' = << >>
  /\ UNCHANGED << system_tick, alert_pending, wireless_connected, last_alert_time, ml,
                  ml_result, battery_voltage, cycle, sentLog, ncyc, njump, cb >>

\* process_sensor_data with the classifier result of the run and a transport
\* that delivers; sentLog keeps the latest delivery only
LowBatteryProcessSensorData ==
  /\ pc = "process"
  /\ LET result == RunMlInference(ml, ml.due_invoke.ok, ml.due_invoke.output_data,
                                  system_tick)
         alert == AlertFor(result)
     IN
     /\ ml_result' = result
     /\ IF alert = << >>
        THEN UNCHANGED << wireless_connected, last_alert_time, callLog, sentLog >>
        ELSE LET r == SendWirelessAlert("process", alert[1], TRUE, current_sensor_data,
                                        result.confidence, system_tick,
                                        wireless_connected, last_alert_time,
                                        GoodTransport, NoSample)
             IN /\ wireless_connected' = r.connected
                /\ last_alert_time' = r.last
                /\ callLog' = Append(callLog, r)
                /\ sentLog' = IF r.outcome = "sent" THEN Delivered(r) ELSE sentLog
  /\ pc' = StepAfter(pc)
  /\ phaseLog' = Append(phaseLog, "process")
  /\ UNCHANGED << system_tick, current_sensor_data, alert_pending, ml, battery_voltage,
                  cycle, ncyc, njump, cb >>

\* the battery check of main() with a voltage below the threshold and a
\* transport that delivers
LowBatteryCheck ==
  /\ pc = "battery"
  /\ IF ~BatteryDue(system_tick)
     THEN UNCHANGED << wireless_connected, last_alert_time, callLog, sentLog, phaseLog,
                       battery_voltage >>
     ELSE /\ phaseLog' = Append(phaseLog, "battery")
          /\ \E voltage \in LowVoltages :
               /\ battery_voltage' = << voltage >>
               /\ IF ~BatteryLow(voltage)
                  THEN UNCHANGED << wireless_connected, last_alert_time, callLog, sentLog >>
                  ELSE LET r == SendWirelessAlert("battery", ALERT_LOW_BATTERY, FALSE,
                                                  NoSample, 0, system_tick,
                                                  wireless_connected, last_alert_time,
                                                  GoodTransport, NoSample)
                       IN /\ wireless_connected' = r.connected
                          /\ last_alert_time' = r.last
                          /\ callLog' = Append(callLog, r)
                          /\ sentLog' = IF r.outcome = "sent" THEN Delivered(r)
                                        ELSE sentLog
  /\ pc' = StepAfter(pc)
  /\ ml_result' = NoResult
  /\ UNCHANGED << system_tick, current_sensor_data, alert_pending, ml, cycle, ncyc,
                  njump, cb >>

\* system_tick += SENSOR_READ_INTERVAL_MS; the cycle index is kept within the
\* period of system_tick
LowBatteryAdvanceTick ==
  /\ pc = "tick"
  /\ system_tick' = U32(system_tick + Ms(SENSOR_READ_INTERVAL_MS))
  /\ cycle' = (cycle + 1) % TickModulus
  /\ pc' = StepAfter(pc)
  /\ UNCHANGED << current_sensor_data, alert_pending, wireless_connected, last_alert_time,
                  ml, ml_result, battery_voltage, phaseLog, callLog, sentLog, ncyc,
                  njump, cb >>

LowBatteryNext ==
  \/ LowBatteryIdleCycles
  \/ LowBatteryReadAllSensors
  \/ LowBatteryProcessSensorData
  \/ LowBatteryCheck
  \/ EnterLowPowerMode
  \/ LowBatteryAdvanceTick

\* main() is the only thread of control and every call it makes returns
LowBatterySpec ==
  LowBatteryInit /\ [][LowBatteryNext]_vars /\ WF_vars(LowBatteryNext)

\* the latest delivery is a LOW_BATTERY alert
LowBatterySent == \E i \in DOMAIN sentLog : sentLog[i].alert_type = ALERT_LOW_BATTERY

\* the classifier of the run never raises an alert
ClassifierQuiet ==
  AlertFor(RunMlInference(ml, ml.due_invoke.ok, ml.due_invoke.output_data, 0)) = << >>

====
